---- MODULE Spec2Model ----
(***************************************************************************)
(* MiniMail: the mail classification and extraction engine.                *)
(*                                                                         *)
(* The model follows one ImapClient: its accumulated state (self._data),   *)
(* the mailbox it polls, and one pass of _fetch_sync over the newest       *)
(* messages of that mailbox: process_message routes each message to        *)
(* handle_amazon, handle_usps_delivered or handle_usps_digest.  Of the    *)
(* MailCoordinator it follows the "_status" it exposes with the data.      *)
(*                                                                         *)
(* A message is what the code reads of it: its From, Subject and Date      *)
(* headers and, of its body, the matches of the regular expressions the    *)
(* extractors search for (sender labels after _clean_label, counters,      *)
(* tracker URL, ...).  Python dicts are functions whose DOMAIN is the set   *)
(* of keys present; None is the empty tuple where a value is optional.     *)
(***************************************************************************)
EXTENDS Integers, Sequences, FiniteSets, TLC

VARIABLES
    source,     \* the messages the external message source may deliver
    mailbox,    \* the folder, oldest message first (IMAP sequence order)
    acc,        \* ImapClient._data: [usps, amazon]
    heap,       \* the dict objects behind usps["buckets"] (shared by reference)
    pc,         \* "idle" | "pass": position of _fetch_sync
    pick,       \* the batch of the current (or last) pass, oldest first
    todo,       \* the messages of the batch still to process, newest first
    data,       \* the working copy of the pass: [usps, amazon]
    flags,      \* the per-pass routing flags
    log,        \* one entry per message processed in the current (or last) pass
    outcome,    \* how the last call of _fetch_sync ended:
                \* "none" | "committed" | "aborted" | "returned"
    status,     \* MailCoordinator: the "_status" of the data exposed to the host:
                \* "none" | "restoring" | "live"
    before      \* the value, in every nested field, self._data had when the
                \* running pass took its copies (empty while no pass runs)

vars == <<source, mailbox, acc, heap, pc, pick, todo, data, flags, log, outcome,
          status, before>>

(***************************************************************************)
(* Bounds of the model.                                                    *)
(***************************************************************************)
\* the longest mailbox explored
MaxMailbox == 3
\* conf[CONF_FETCH_LIMIT]: how many of the newest messages a pass fetches
FetchLimit == 3
\* the largest parsable Date header (epoch seconds); -1 is a date before 1970
MaxTs == 2
\* the longest run of distinct sender names in one place of a digest
MaxNames == 6
\* the largest counter a digest declares
MaxCount == 6

(***************************************************************************)
(* Python helpers.                                                         *)
(***************************************************************************)
Get(d, k, dflt) == IF k \in DOMAIN d THEN d[k] ELSE dflt

Put(d, k, v) == [x \in (DOMAIN d) \cup {k} |-> IF x = k THEN v ELSE d[x]]

Min(a, b) == IF a <= b THEN a ELSE b

\* s[:n]
Take(s, n) == SubSeq(s, 1, Min(n, Len(s)))

\* s[-n:]  (n > 0)
LastN(s, n) == IF Len(s) <= n THEN s ELSE SubSeq(s, Len(s) - n + 1, Len(s))

\* reversed(s)
Reverse(s) == [i \in 1..Len(s) |-> s[Len(s) + 1 - i]]

Range(s) == {s[i] : i \in 1..Len(s)}

RECURSIVE Concat(_)
Concat(ss) == IF ss = <<>> THEN <<>> ELSE Head(ss) \o Concat(Tail(ss))

RECURSIVE Sum(_)
Sum(s) == IF s = <<>> THEN 0 ELSE Head(s) + Sum(Tail(s))

\* [x] * n
Repeat(x, n) == [i \in 1..n |-> x]

IsNone(o) == o = <<>>

Some(v) == <<v>>

(***************************************************************************)
(* Headers.  The router tests the casefolded From and Subject for          *)
(* substrings; Phrases gives, for each header text of the model, the       *)
(* tested phrases it contains ("^p" = starts with p, "p$" = ends with p).  *)
(***************************************************************************)
FROM_AMAZON   == "auto-confirm@amazon.com"
FROM_TRACKING == "shipment-tracking@amazon.com"
FROM_USPS     == "USPSInformedDelivery@email.informeddelivery.usps.com"
FROM_USPS_AMZ == "USPS Delivery <usps-delivery@amazon.com>"
FROM_OTHER    == "friend@example.com"

SUBJ_DELIVERED_FRI == "Your Mail Was Delivered Fri, Sep 12"
SUBJ_DELIVERED_SAT == "Your Mail Was Delivered Sat, Sep 13"
SUBJ_DELIVERED_BARE == "Mailpiece Delivered"
SUBJ_DIGEST_FRI == "Your Daily Digest for Fri, Sep 12 is ready to view"
SUBJ_DIGEST_SAT == "Your Daily Digest for Sat, Sep 13 is ready to view"
SUBJ_BOTH == "Informed Delivery: Your Mail Was Delivered Mon, Sep 15"
SUBJ_NOTICE == "USPS account notice"
SUBJ_SHIPPED == "Shipped: Your order has shipped"
SUBJ_ARRIVED == "Delivered: Your package"
SUBJ_ORDERED == "Ordered: Widget"
SUBJ_OUT == "Your package is out for delivery"
SUBJ_PLAIN == "Your Amazon.com update"
SUBJ_EMPTY == ""
SUBJ_CONFIRM_SHIPPED == "Order confirmation: your order has shipped"
SUBJ_SHIPPED_OUT == "Shipped: now out for delivery"
SUBJ_OUT_DELIVERED == "Out for delivery: to be delivered today"

FromPhrases(frm) ==
    CASE frm = FROM_AMAZON -> {"amazon"}
      [] frm = FROM_TRACKING -> {"amazon", "shipment-tracking@amazon"}
      [] frm = FROM_USPS -> {"informeddelivery", "email.informeddelivery.usps.com",
                             "uspsinformeddelivery@", "usps", "delivery"}
      [] frm = FROM_USPS_AMZ -> {"amazon", "usps", "delivery"}
      [] OTHER -> {}

SubjectPhrases(subj) ==
    CASE subj \in {SUBJ_DELIVERED_FRI, SUBJ_DELIVERED_SAT} ->
            {"your mail was delivered", " delivered"}
      [] subj = SUBJ_DELIVERED_BARE ->
            {"mailpiece delivered", "delivered$", " delivered"}
      [] subj \in {SUBJ_DIGEST_FRI, SUBJ_DIGEST_SAT} -> {"daily digest", "ready to view"}
      [] subj = SUBJ_BOTH -> {"informed delivery", "your mail was delivered", " delivered"}
      [] subj = SUBJ_SHIPPED -> {"^shipped:", " has shipped", "your order has shipped"}
      [] subj = SUBJ_ARRIVED -> {"^delivered:", "^delivered"}
      [] subj = SUBJ_ORDERED -> {"^ordered:"}
      [] subj = SUBJ_OUT -> {"out for delivery"}
      [] subj = SUBJ_CONFIRM_SHIPPED ->
            {"order confirmation", " has shipped", "your order has shipped"}
      [] subj = SUBJ_SHIPPED_OUT -> {"^shipped:", "out for delivery"}
      [] subj = SUBJ_OUT_DELIVERED -> {"out for delivery", " delivered"}
      [] OTHER -> {}

\* "Your Mail Was Delivered <weekday>, <Mon> <day>": SUBJECT_RX's two groups
SubjectDate(subj) ==
    CASE subj = SUBJ_DELIVERED_FRI -> Some([mon |-> "Sep", day |-> 12])
      [] subj = SUBJ_DELIVERED_SAT -> Some([mon |-> "Sep", day |-> 13])
      [] subj = SUBJ_BOTH -> Some([mon |-> "Sep", day |-> 15])
      [] OTHER -> <<>>

(***************************************************************************)
(* Message bodies: the matches of the extractors' regular expressions.     *)
(***************************************************************************)
BucketKeys == <<"expected_today", "expected_1_2_days", "awaiting_from_sender", "outbound">>

NoSegment == [items |-> <<>>, froms |-> <<>>, tracks |-> 0]

NoSections == [k \in Range(BucketKeys) |-> NoSegment]

EmptyBody == [
    \* rules/amazon.py
    headline   |-> "",      \* _RE_HTML_HEADLINE in the HTML
    itemsText  |-> <<>>,    \* _RE_ITEM_LI in the plaintext
    itemsHtml  |-> <<>>,    \* _RE_ITEM_HTML / <li> in the HTML
    trackText  |-> "",      \* _RE_TRACK in the plaintext
    trackHtml  |-> "",      \* _RE_TRACK in the HTML
    etaText    |-> "",      \* _RE_ETA in the plaintext
    etaHtml    |-> "",      \* _RE_ETA in the HTML
    \* rules/usps_digest.py
    bigMail    |-> <<>>,    \* _RE_MAIL_BIG: the header counter of mailpieces
    bigPkg     |-> <<>>,    \* _RE_PKG_BIG: the header counter of packages
    txtMail    |-> <<>>,    \* "Mail(pieces) Expected Today ... N" in the text
    txtPkg     |-> <<>>,    \* "Package(s) Expected Today ... N" in the text
    spans      |-> <<>>,    \* _RE_MAIL_FROM_SPAN labels
    shippers   |-> <<>>,    \* _RE_SHIPPER_SPAN labels
    loose      |-> <<>>,    \* FROM: labels of the flat text outside the sections
    sections   |-> NoSections,
    cids       |-> {},      \* cid: references of the mailpiece images
    blobs      |-> {}       \* the cids an image part with a payload carries
]

Message(frm, subj, date, body) ==
    [frm |-> frm, subject |-> subj, date |-> date, body |-> body]

(***************************************************************************)
(* rules/amazon.py: the Amazon extractor.                                  *)
(***************************************************************************)
HEAD_DELIVERED == "Your package was delivered!"
HEAD_OUT       == "Out for delivery"
HEAD_SHIPPED   == "Your order has shipped"
HEAD_RECEIVED  == "We've received your order"
HEAD_SHIPPED_SHORT == "Shipped"
HEAD_CONFIRMED == "Order confirmed"
HEAD_PLACED    == "Order placed"
HEAD_ORDERED   == "Ordered"

TRACK_URL_FULL ==
    "https://www.amazon.com/progress-tracker/package?orderId=111-1&shipmentId=S1&packageIndex=0"
TRACK_URL_ORDER == "https://www.amazon.com/progress-tracker/package?orderId=222-2"

\* the phrases _event_from_subject_or_html looks for in the lower-cased headline
HeadlinePhrases(h) ==
    CASE h = HEAD_DELIVERED -> {"delivered"}
      [] h = HEAD_OUT -> {"out for delivery"}
      [] h = HEAD_SHIPPED -> {"shipped", "has shipped"}
      [] h = HEAD_SHIPPED_SHORT -> {"shipped"}
      [] h = HEAD_CONFIRMED -> {"order confirmed"}
      [] h = HEAD_PLACED -> {"order placed"}
      [] h = HEAD_ORDERED -> {"ordered"}
      [] OTHER -> {}

\* a classification that consults the headline before the subject
event_headline_first(subject, headline) ==
    LET subj == SubjectPhrases(subject)
        t == HeadlinePhrases(headline)
    IN  IF t \cap {"shipped", "has shipped"} # {} THEN "shipped"
        ELSE IF "out for delivery" \in t THEN "out_for_delivery"
        ELSE IF "delivered" \in t THEN "delivered"
        ELSE IF subj \cap {"^ordered:", "order confirmation"} # {} THEN "ordered"
        ELSE IF subj \cap {"^shipped:", " has shipped"} # {} THEN "shipped"
        ELSE IF "out for delivery" \in subj THEN "out_for_delivery"
        ELSE IF subj \cap {"^delivered:", " delivered"} # {} THEN "delivered"
        ELSE ""

event_from_subject_or_html(subject, headline) ==
    LET subj == SubjectPhrases(subject)
        t == HeadlinePhrases(headline)
    IN  IF subj \cap {"^ordered:", " order confirmed", "order confirmation",
                      "we've received your order", "your order has been placed",
                      "order placed"} # {}
        THEN "ordered"
        ELSE IF subj \cap {"^shipped:", " has shipped", "your order has shipped"} # {}
        THEN "shipped"
        ELSE IF "out for delivery" \in subj
        THEN "out_for_delivery"
        ELSE IF subj \cap {"^delivered:", " delivered"} # {}
        THEN "delivered"
        ELSE IF headline # ""
        THEN IF t \cap {"ordered", "order confirmed", "order placed"} # {} THEN "ordered"
             ELSE IF t \cap {"shipped", "has shipped"} # {} THEN "shipped"
             ELSE IF "out for delivery" \in t THEN "out_for_delivery"
             ELSE IF "delivered" \in t THEN "delivered"
             ELSE ""
        ELSE ""

parse_track_params(url) ==
    CASE url = TRACK_URL_FULL ->
            [order_id |-> "111-1", shipment_id |-> "S1", package_index |-> "0"]
      [] url = TRACK_URL_ORDER ->
            [order_id |-> "222-2", shipment_id |-> "", package_index |-> ""]
      [] OTHER -> [order_id |-> "", shipment_id |-> "", package_index |-> ""]

parse_amazon_email(msg) ==
    LET b == msg.body
        subject == msg.subject
        items == IF b.itemsText # <<>> THEN b.itemsText ELSE b.itemsHtml
        track_url == IF b.trackText # "" THEN b.trackText ELSE b.trackHtml
        ids == IF track_url # "" THEN parse_track_params(track_url)
               ELSE [order_id |-> "", shipment_id |-> "", package_index |-> ""]
        eta == IF b.etaText # "" THEN b.etaText ELSE b.etaHtml
    IN  [subject       |-> IF subject # "" THEN subject ELSE b.headline,
         headline      |-> b.headline,
         event         |-> event_from_subject_or_html(subject, b.headline),
         items         |-> items,
         track_url     |-> track_url,
         order_id      |-> ids.order_id,
         shipment_id   |-> ids.shipment_id,
         package_index |-> ids.package_index,
         eta           |-> eta]

(***************************************************************************)
(* imap_client_amazon.py: the Amazon merger.                               *)
(***************************************************************************)
\* the eight tracked fields, in the order of the merge loop
AmazonFields == <<"subject", "event", "items", "track_url",
                  "order_id", "shipment_id", "package_index", "eta">>

\* v in (None, '', [])
IsEmptyValue(k, v) == IF k = "items" THEN v = <<>> ELSE v = ""

\* Epoch seconds of the Date header; 0.0 when it does not parse
msg_timestamp(msg) == IF IsNone(msg.date) THEN 0 ELSE msg.date[1]

safe_subject(msg) == msg.subject

\* float(amazon.get('ts') or 0.0)
StoredTs(amazon) == Get(amazon, "ts", 0)

\* "Ignore if message is older than what we have"
IsStaleNever(new_ts, old_ts) == FALSE

\* a test that forgets the stored ts
IsStaleIgnoringStored(new_ts, old_ts) == new_ts < 0

IsStale(new_ts, old_ts) == new_ts < old_ts

\* "Stamp freshest timestamp (even if content identical)"
ShouldStampAlways(new_ts, old_ts) == new_ts # 0

ShouldStamp(new_ts, old_ts) == new_ts # 0 /\ new_ts # old_ts

\* a loop that writes every extracted value, the empty ones too
MergeFieldsAll(amazon, a) ==
    [k \in (DOMAIN amazon) \cup Range(AmazonFields) |->
        IF k \in Range(AmazonFields) THEN a[k] ELSE amazon[k]]

\* the loop over the tracked fields: a non-empty extracted value is written
MergeFields(amazon, a) ==
    LET written == {k \in Range(AmazonFields) : ~IsEmptyValue(k, a[k])}
    IN  [k \in (DOMAIN amazon) \cup written |->
            IF k \in written THEN a[k] ELSE amazon[k]]

FieldsUpdated(amazon, a) ==
    \E k \in Range(AmazonFields) :
        /\ ~IsEmptyValue(k, a[k])
        /\ (k \notin DOMAIN amazon \/ amazon[k] # a[k])

\* a merger that stamps ts only when a tracked field changed
handle_amazon_stamp_on_change(msg, amazon) ==
    LET new_ts == msg_timestamp(msg)
        old_ts == StoredTs(amazon)
        a == parse_amazon_email(msg)
    IN  IF DOMAIN a = {} \/ IsStale(new_ts, old_ts)
        THEN [amazon |-> amazon, updated |-> FALSE]
        ELSE LET merged == MergeFields(amazon, a)
                 stamp == ShouldStamp(new_ts, old_ts) /\ FieldsUpdated(amazon, a)
                 stamped == IF stamp THEN Put(merged, "ts", new_ts) ELSE merged
                 final == IF Get(stamped, "subject", "") = ""
                          THEN Put(stamped, "subject", safe_subject(msg))
                          ELSE stamped
             IN  [amazon |-> final,
                  updated |-> FieldsUpdated(amazon, a)]

handle_amazon(msg, amazon) ==
    LET new_ts == msg_timestamp(msg)
        old_ts == StoredTs(amazon)
        a == parse_amazon_email(msg)
    IN  IF DOMAIN a = {} \/ IsStale(new_ts, old_ts)
        THEN [amazon |-> amazon, updated |-> FALSE]
        ELSE LET merged == MergeFields(amazon, a)
                 stamp == ShouldStamp(new_ts, old_ts)
                 stamped == IF stamp THEN Put(merged, "ts", new_ts) ELSE merged
                 final == IF Get(stamped, "subject", "") = ""
                          THEN Put(stamped, "subject", safe_subject(msg))
                          ELSE stamped
             IN  [amazon |-> final,
                  updated |-> FieldsUpdated(amazon, a) \/ stamp]

(***************************************************************************)
(* rules/usps_delivered.py: the USPS Delivered extractor.                  *)
(***************************************************************************)
DASHBOARD_URL == "https://informeddelivery.usps.com/portal/dashboard"

\* datetime.now().year at parse time
CurrentYear == 2025

MONTHS(abbr) ==
    CASE abbr = "Jan" -> "January"   [] abbr = "Feb" -> "February"
      [] abbr = "Mar" -> "March"     [] abbr = "Apr" -> "April"
      [] abbr = "May" -> "May"       [] abbr = "Jun" -> "June"
      [] abbr = "Jul" -> "July"      [] abbr = "Aug" -> "August"
      [] abbr = "Sep" -> "September" [] abbr = "Oct" -> "October"
      [] abbr = "Nov" -> "November"  [] abbr = "Dec" -> "December"
      [] OTHER -> abbr

\* the text "today, <Month> <day>!" is the tuple of its parts; "" is <<>>
parse_subject_date(subj) ==
    IF subj = "" \/ IsNone(SubjectDate(subj))
    THEN <<>>
    ELSE LET m == SubjectDate(subj)[1]
             mon_full == MONTHS(m.mon)
         IN  Some([month |-> mon_full, day |-> m.day, year |-> CurrentYear,
                   label |-> <<"today, ", mon_full, m.day, "!">>])

parse_usps_delivered(msg) ==
    LET subj == msg.subject
        info == parse_subject_date(subj)
    IN  [subject       |-> subj,
         delivered     |-> TRUE,
         date_label    |-> IF IsNone(info) THEN <<>> ELSE info[1].label,
         month         |-> IF IsNone(info) THEN "" ELSE info[1].month,
         day           |-> IF IsNone(info) THEN 0 ELSE info[1].day,
         year          |-> IF IsNone(info) THEN 0 ELSE info[1].year,
         dashboard_url |-> DASHBOARD_URL]

(***************************************************************************)
(* rules/usps_digest.py: the USPS Digest extractor.                        *)
(***************************************************************************)
\* the most sample names a bucket keeps
BucketCap == 5
\* the most names mail_from and pkgs_from keep before padding
ListCap == 10

\* sender labels as _clean_label leaves them (an ALL-CAPS label is title-cased)
NamePool == <<"Acme Corp", "Beta Inc", "Cato LLC", "Delta Co",
              "Echo Ltd", "Fargo Bank", "Gamma Inc", "Hale Farms">>

Upper(x) ==
    CASE x = "Usps" -> "USPS"
      [] x = "Uspsis" -> "USPSIS"
      [] OTHER -> x

RECURSIVE DedupFrom(_, _)
DedupFrom(items, seen) ==
    IF items = <<>> THEN <<>>
    ELSE IF Head(items) # "" /\ Head(items) \notin seen
         THEN <<Head(items)>> \o DedupFrom(Tail(items), seen \cup {Head(items)})
         ELSE DedupFrom(Tail(items), seen)

dedup_keep_order(items) == DedupFrom(items, {})

NonEmpty(names) == SelectSeq(names, LAMBDA x : x # "")

\* a count that prefers the names found to the declared counter
bucket_count_names_first(seg) ==
    LET names == dedup_keep_order(NonEmpty(seg.froms))
    IN  IF names # <<>> THEN [count |-> Len(names), from |-> Take(names, BucketCap)]
        ELSE IF ~IsNone(seg.items) THEN [count |-> seg.items[1], from |-> <<>>]
        ELSE [count |-> seg.tracks, from |-> <<>>]

bucket_count_and_names(seg) ==
    LET names == NonEmpty(seg.froms)
    IN  IF ~IsNone(seg.items)
        THEN [count |-> seg.items[1], from |-> Take(dedup_keep_order(names), BucketCap)]
        ELSE IF names # <<>>
        THEN [count |-> Len(dedup_keep_order(names)),
              from |-> Take(dedup_keep_order(names), BucketCap)]
        ELSE [count |-> seg.tracks, from |-> <<>>]

\* every FROM: label of the sections, in the order of the keys
SectionFroms(sections) == Concat([i \in 1..Len(BucketKeys) |-> sections[BucketKeys[i]].froms])

Blacklist == {"USPS", "USPS INFORMED DELIVERY", "UNITED STATES POSTAL SERVICE",
              "INFORMED DELIVERY", "U.S. POSTAL SERVICE"}

mail_from_of(body) ==
    LET spans == NonEmpty(body.spans)
        pkg_froms == Range(SectionFroms(body.sections))
        flat_froms == body.loose \o SectionFroms(body.sections)
        all_from == SelectSeq(flat_froms, LAMBDA nm : nm # "" /\ nm \notin pkg_froms)
        out == IF spans # <<>> THEN spans ELSE all_from
        clean == SelectSeq(out, LAMBDA x : Upper(x) \notin Blacklist)
    IN  Take(clean, ListCap)

packages_from(body) ==
    LET shippers == NonEmpty(body.shippers)
        names == IF shippers # <<>> THEN shippers
                 ELSE NonEmpty(SectionFroms(body.sections))
    IN  Take(dedup_keep_order(names), ListCap)

\* the enrichment loop over pkgs_from: append, then test the length and break
RECURSIVE EnrichLoop(_, _, _)
EnrichLoop(aw_names, pkgs, aw_count) ==
    IF pkgs = <<>> THEN aw_names
    ELSE LET nm == Head(pkgs)
             next == IF nm \notin Range(aw_names) THEN Append(aw_names, nm) ELSE aw_names
         IN  IF Len(next) >= Min(aw_count, BucketCap)
             THEN next
             ELSE EnrichLoop(next, Tail(pkgs), aw_count)

Enrich(aw, pkgs_from) ==
    IF aw.count > Len(aw.from)
    THEN [aw EXCEPT !.from = EnrichLoop(aw.from, pkgs_from, aw.count)]
    ELSE aw

\* dt.strftime of the Date header, or of utcnow() when it does not parse
email_dt(msg) ==
    IF IsNone(msg.date) THEN [of |-> "utcnow", t |-> 0] ELSE [of |-> "date", t |-> msg.date[1]]

\* a count of the images found, written or not
save_mail_images_counting_found(msg, mail_from, env) ==
    LET cid_map == msg.body.blobs \cap msg.body.cids
        kept == SelectSeq(env.order, LAMBDA c : c \in cid_map /\ c \notin env.failed)
    IN  [files |-> [j \in 1..Len(kept) |-> <<"/config/www/minimail/usps", kept[j]>>],
         urls  |-> [j \in 1..Len(kept) |-> <<"/local/minimail/usps", kept[j]>>],
         count |-> Cardinality(cid_map)]

\* env.order: the iteration order of the set of cids; env.failed: the cids
\* whose write_bytes raises
save_mail_images(msg, mail_from, env) ==
    LET cids == msg.body.cids
        cid_map == msg.body.blobs \cap cids
        ordered == env.order
        Kept(idx) == ordered[idx] \in cid_map /\ ordered[idx] \notin env.failed
        kept == SelectSeq([i \in 1..Len(ordered) |-> i], Kept)
        OutName(idx) == [tag |-> email_dt(msg), idx |-> idx,
                         hint |-> IF idx - 1 < Len(mail_from) THEN mail_from[idx] ELSE "mail"]
        files == [j \in 1..Len(kept) |-> <<"/config/www/minimail/usps", OutName(kept[j])>>]
        urls  == [j \in 1..Len(kept) |-> <<"/local/minimail/usps", OutName(kept[j])>>]
    IN  IF cids = {} \/ cid_map = {}
        THEN [files |-> <<>>, urls |-> <<>>, count |-> 0]
        ELSE [files |-> files, urls |-> urls, count |-> Len(files)]

\* env.store = "down": out_dir.mkdir raises (the directory cannot be created).
\* The call is reached once an image part carries one of the cids, and its
\* error leaves _save_mail_images, parse_usps_digest and handle_usps_digest.
save_raises(msg, env) ==
    /\ msg.body.cids # {}
    /\ msg.body.blobs \cap msg.body.cids # {}
    /\ env.store = "down"

\* the padding of mail_from with the placeholder sender
PadNever(mail_from, mail_expected) == mail_from

Pad(mail_from, mail_expected) ==
    IF mail_expected > Len(mail_from)
    THEN mail_from \o Repeat("Envelope", mail_expected - Len(mail_from))
    ELSE mail_from

parse_usps_digest(msg, env) ==
    LET b == msg.body
        \* header counters, then the fallback over the text
        mail0 == IF ~IsNone(b.bigMail) THEN b.bigMail ELSE b.txtMail
        pkgs0 == IF ~IsNone(b.bigPkg) THEN b.bigPkg ELSE b.txtPkg
        buckets0 == [k \in Range(BucketKeys) |-> bucket_count_and_names(b.sections[k])]
        mail_from0 == mail_from_of(b)
        pkgs_from == packages_from(b)
        buckets == [buckets0 EXCEPT !["awaiting_from_sender"] =
                        Enrich(buckets0["awaiting_from_sender"], pkgs_from)]
        mail_expected == IF IsNone(mail0) THEN Len(NonEmpty(mail_from0)) ELSE mail0[1]
        pkgs_expected == IF IsNone(pkgs0)
                         THEN Sum([i \in 1..Len(BucketKeys) |-> buckets[BucketKeys[i]].count])
                         ELSE pkgs0[1]
        mail_from == Pad(mail_from0, mail_expected)
        mail_images == save_mail_images(msg, mail_from, env)
    IN  [mail_expected    |-> mail_expected,
         pkgs_expected    |-> pkgs_expected,
         mail_from        |-> mail_from,
         pkgs_from        |-> dedup_keep_order(pkgs_from),
         tracking_urls    |-> <<>>,
         dashboard_url    |-> DASHBOARD_URL,
         buckets          |-> buckets,
         mail_images      |-> mail_images,
         mailpiece_images |-> mail_images]

(***************************************************************************)
(* imap_client_usps.py: the USPS mergers.                                  *)
(*                                                                         *)
(* usps["buckets"] is a dict object that dict(usps) copies by reference:   *)
(* the usps dict holds the name of a cell of heap, "shared" (the object    *)
(* self._data reaches) or "fresh" (an object created in the running pass). *)
(***************************************************************************)
OrStr(a, b) == IF a # "" THEN a ELSE b

\* d.update(r)
PutAll(d, r) == [x \in (DOMAIN d) \cup (DOMAIN r) |-> IF x \in DOMAIN r THEN r[x] ELSE d[x]]

decode_subject(msg) == msg.subject

\* a merge that also resets the letter counters
DeliveredWritesAll(msg, usps) ==
    LET d == parse_usps_delivered(msg)
        dash == OrStr(d.dashboard_url, OrStr(Get(usps, "dashboard_url", ""), DASHBOARD_URL))
    IN  [subject |-> decode_subject(msg),
         type |-> "delivered",
         dashboard_url |-> dash,
         mail_expected |-> 0,
         mail_from |-> <<>>,
         last_delivered |-> [subject |-> d.subject, delivered |-> d.delivered,
                             date_label |-> d.date_label, month |-> d.month,
                             day |-> d.day, year |-> d.year, dashboard_url |-> dash]]

\* what handle_usps_delivered writes into usps
DeliveredWrites(msg, usps) ==
    LET d == parse_usps_delivered(msg)
        dash == OrStr(d.dashboard_url, OrStr(Get(usps, "dashboard_url", ""), DASHBOARD_URL))
    IN  [subject |-> decode_subject(msg),
         type |-> "delivered",
         dashboard_url |-> dash,
         last_delivered |-> [subject |-> d.subject, delivered |-> d.delivered,
                             date_label |-> d.date_label, month |-> d.month,
                             day |-> d.day, year |-> d.year, dashboard_url |-> dash]]

handle_usps_delivered(msg, usps) == PutAll(usps, DeliveredWrites(msg, usps))

\* the loop over the four keys: cur = usps["buckets"].get(k, ...); cur is
\* rewritten from the extracted bucket and stored back
RECURSIVE MergeBucketsFrom(_, _, _)
MergeBucketsFrom(obj, buckets, keys) ==
    IF keys = <<>> THEN obj
    ELSE LET k == Head(keys)
             cur == Get(obj, k, [count |-> 0, from |-> <<>>])
             new == [cur EXCEPT !.count = buckets[k].count, !.from = buckets[k].from]
         IN  MergeBucketsFrom(Put(obj, k, new), buckets, Tail(keys))

\* a merge that accumulates instead of replacing
MergeBucketsAdding(obj, buckets) ==
    [k \in Range(BucketKeys) |->
        [count |-> Get(obj, k, [count |-> 0, from |-> <<>>]).count + buckets[k].count,
         from |-> buckets[k].from]]

MergeBuckets(obj, buckets) == MergeBucketsFrom(obj, buckets, BucketKeys)

\* a merge that appends the senders to those of the prior state
DigestWritesKeeping(msg, usps, p) ==
    [subject |-> decode_subject(msg),
     type |-> "digest",
     mail_expected |-> Get(p, "mail_expected", Get(usps, "mail_expected", <<>>)),
     pkgs_expected |-> Get(p, "pkgs_expected", Get(usps, "pkgs_expected", <<>>)),
     mail_from |-> Get(usps, "mail_from", <<>>) \o Get(p, "mail_from", <<>>),
     pkgs_from |-> Get(p, "pkgs_from", Get(usps, "pkgs_from", <<>>)),
     dashboard_url |-> OrStr(Get(p, "dashboard_url", Get(usps, "dashboard_url", "")),
                             Get(usps, "dashboard_url", "")),
     mail_images |-> [count |-> p.mail_images.count, urls |-> p.mail_images.urls,
                      files |-> p.mail_images.files],
     images |-> p.mail_images.urls]

\* the core counters and lists, and the images, handle_usps_digest writes
DigestWrites(msg, usps, p) ==
    [subject |-> decode_subject(msg),
     type |-> "digest",
     mail_expected |-> Get(p, "mail_expected", Get(usps, "mail_expected", <<>>)),
     pkgs_expected |-> Get(p, "pkgs_expected", Get(usps, "pkgs_expected", <<>>)),
     mail_from |-> Get(p, "mail_from", Get(usps, "mail_from", <<>>)),
     pkgs_from |-> Get(p, "pkgs_from", Get(usps, "pkgs_from", <<>>)),
     dashboard_url |-> OrStr(Get(p, "dashboard_url", Get(usps, "dashboard_url", "")),
                             Get(usps, "dashboard_url", "")),
     mail_images |-> [count |-> p.mail_images.count, urls |-> p.mail_images.urls,
                      files |-> p.mail_images.files],
     images |-> p.mail_images.urls]

\* returns the usps dict and the heap after the in-place writes
handle_usps_digest(msg, usps, hp, env) ==
    LET p == parse_usps_digest(msg, env)
        ref == Get(usps, "buckets", "fresh")
        obj == IF "buckets" \in DOMAIN usps THEN hp[ref] ELSE <<>>
    IN  [usps |-> Put(PutAll(usps, DigestWrites(msg, usps, p)), "buckets", ref),
         heap |-> [hp EXCEPT ![ref] = MergeBuckets(obj, p.buckets)]]

(***************************************************************************)
(* imap_client.py: the router.                                             *)
(***************************************************************************)
IsAmazonFrom(frm) ==
    "amazon" \in FromPhrases(frm) \/ "shipment-tracking@amazon" \in FromPhrases(frm)

IsUspsFrom(frm) ==
    LET f == FromPhrases(frm)
    IN  \/ "informeddelivery" \in f
        \/ "email.informeddelivery.usps.com" \in f
        \/ "usps informed delivery" \in f
        \/ "uspsinformeddelivery@" \in f
        \/ ("usps" \in f /\ "delivery" \in f)

IsDeliveredSubject(subj) ==
    LET s == SubjectPhrases(subj)
    IN  \/ "your mail was delivered" \in s
        \/ "mail delivery notification" \in s
        \/ "mailpiece delivered" \in s
        \/ "mail piece delivered" \in s
        \/ "^delivered" \in s
        \/ "delivered$" \in s

IsDigestSubject(subj) ==
    LET s == SubjectPhrases(subj)
    IN  \/ "daily digest" \in s
        \/ "ready to view" \in s
        \/ "informed delivery" \in s
        \/ "coming to you soon" \in s

\* a router that tests the USPS rules before the Amazon rule, and the Digest
\* subjects before the Delivered subjects
RouteUspsFirst(msg) ==
    IF IsUspsFrom(msg.frm) /\ IsDigestSubject(msg.subject) THEN "usps_digest"
    ELSE IF IsUspsFrom(msg.frm) /\ IsDeliveredSubject(msg.subject) THEN "usps_delivered"
    ELSE IF IsAmazonFrom(msg.frm) THEN "amazon"
    ELSE "none"

\* a router that takes any other USPS mail for a digest
RouteUspsAsDigest(msg) ==
    IF IsAmazonFrom(msg.frm) THEN "amazon"
    ELSE IF IsUspsFrom(msg.frm) /\ IsDeliveredSubject(msg.subject) THEN "usps_delivered"
    ELSE IF IsUspsFrom(msg.frm) THEN "usps_digest"
    ELSE "none"

\* the branch of process_message a message takes
Route(msg) ==
    IF IsAmazonFrom(msg.frm) THEN "amazon"
    ELSE IF IsUspsFrom(msg.frm) /\ IsDeliveredSubject(msg.subject) THEN "usps_delivered"
    ELSE IF IsUspsFrom(msg.frm) /\ IsDigestSubject(msg.subject) THEN "usps_digest"
    ELSE "none"

\* flags[name] = True
SetFlagNever(fl, name) == fl

\* one flag for both kinds
SetFlagBoth(fl, name) == [got_usps_digest |-> TRUE, got_usps_delivered |-> TRUE]

SetFlag(fl, name) == Put(fl, name, TRUE)

\* a router that stops folding Amazon mail once both USPS gates are set
process_message_gated(msg, d, fl, hp, env) ==
    LET route == Route(msg)
        same == [data |-> d, flags |-> fl, heap |-> hp, route |-> route,
                 merged |-> FALSE, updated |-> FALSE, raised |-> FALSE]
        r == handle_amazon(msg, d.amazon)
        u == handle_usps_digest(msg, d.usps, hp, env)
    IN  CASE route = "amazon" /\ ~(Get(fl, "got_usps_digest", FALSE)
                                   /\ Get(fl, "got_usps_delivered", FALSE)) ->
                [same EXCEPT !.data = IF r.updated THEN [d EXCEPT !.amazon = r.amazon] ELSE d,
                             !.merged = TRUE,
                             !.updated = r.updated]
          [] route = "usps_delivered" /\ ~Get(fl, "got_usps_delivered", FALSE) ->
                [same EXCEPT !.data = [d EXCEPT !.usps = handle_usps_delivered(msg, d.usps)],
                             !.flags = SetFlag(fl, "got_usps_delivered"),
                             !.merged = TRUE,
                             !.updated = TRUE]
          [] route = "usps_digest" /\ ~Get(fl, "got_usps_digest", FALSE)
                                   /\ save_raises(msg, env) ->
                [same EXCEPT !.raised = TRUE]
          [] route = "usps_digest" /\ ~Get(fl, "got_usps_digest", FALSE)
                                   /\ ~save_raises(msg, env) ->
                [same EXCEPT !.data = [d EXCEPT !.usps = u.usps],
                             !.heap = u.heap,
                             !.flags = SetFlag(fl, "got_usps_digest"),
                             !.merged = TRUE,
                             !.updated = TRUE]
          [] OTHER -> same

\* the result of process_message, with the branch taken, whether a merger ran
\* and whether an error left the call (raised)
process_message(msg, d, fl, hp, env) ==
    LET route == Route(msg)
        same == [data |-> d, flags |-> fl, heap |-> hp, route |-> route,
                 merged |-> FALSE, updated |-> FALSE, raised |-> FALSE]
    IN  CASE route = "amazon" ->
                LET r == handle_amazon(msg, d.amazon)
                IN  [same EXCEPT !.data = IF r.updated THEN [d EXCEPT !.amazon = r.amazon]
                                          ELSE d,
                                 !.merged = TRUE,
                                 !.updated = r.updated]
          [] route = "usps_delivered" ->
                IF ~Get(fl, "got_usps_delivered", FALSE)
                THEN [same EXCEPT !.data = [d EXCEPT !.usps = handle_usps_delivered(msg, d.usps)],
                                  !.flags = SetFlag(fl, "got_usps_delivered"),
                                  !.merged = TRUE,
                                  !.updated = TRUE]
                ELSE same
          [] route = "usps_digest" ->
                IF ~Get(fl, "got_usps_digest", FALSE)
                THEN IF save_raises(msg, env)
                     THEN [same EXCEPT !.raised = TRUE]
                     ELSE LET r == handle_usps_digest(msg, d.usps, hp, env)
                          IN  [same EXCEPT !.data = [d EXCEPT !.usps = r.usps],
                                           !.heap = r.heap,
                                           !.flags = SetFlag(fl, "got_usps_digest"),
                                           !.merged = TRUE,
                                           !.updated = TRUE]
                ELSE same
          [] OTHER -> same

(***************************************************************************)
(* The messages the message source delivers.                               *)
(***************************************************************************)
\* Date headers: one that does not parse, and epoch seconds -1, 1 .. MaxTs
Dates == {<<>>} \cup {Some(t) : t \in (-1..MaxTs) \ {0}}

\* NamePool[a], ..., NamePool[a + n - 1]
Run(a, n) == SubSeq(NamePool, a, Min(a + n - 1, Len(NamePool)))

AmazonContents == {
    [subject |-> SUBJ_SHIPPED,
     body |-> [EmptyBody EXCEPT !.itemsText = <<"Widget">>, !.trackText = TRACK_URL_FULL,
                                !.etaText = "Arriving Today"]],
    [subject |-> SUBJ_ARRIVED,
     body |-> [EmptyBody EXCEPT !.headline = HEAD_DELIVERED, !.itemsHtml = <<"Gadget">>]],
    [subject |-> SUBJ_PLAIN,
     body |-> [EmptyBody EXCEPT !.trackHtml = TRACK_URL_ORDER, !.etaHtml = "Arrives Tomorrow"]],
    [subject |-> SUBJ_EMPTY, body |-> EmptyBody] }

AmazonMsgs == {Message(FROM_AMAZON, c.subject, d, c.body) : c \in AmazonContents, d \in Dates}

\* the lists of sender labels a place of a digest may hold
NameLists ==
    {Run(1, n) : n \in 0..MaxNames}
        \cup {<<NamePool[1], NamePool[1]>>, <<"Usps", NamePool[1]>>, <<"Uspsis">>}

Counters == {<<>>} \cup {Some(n) : n \in 0..MaxCount}

\* the letter side of a digest: header counter, text counter, span and loose labels
MailSides ==
    {[EmptyBody EXCEPT !.bigMail = c, !.txtMail = t, !.spans = s]
        : c \in Counters, t \in {<<>>, Some(1)}, s \in NameLists}
    \cup
    {[EmptyBody EXCEPT !.bigMail = c, !.txtMail = t, !.loose = s,
                       !.sections = [NoSections EXCEPT !["outbound"].froms = Run(1, 1)]]
        : c \in Counters, t \in {<<>>, Some(1)}, s \in NameLists}

\* the package side: the Awaiting From Sender and Expected Today sections
PackageSides ==
    {[EmptyBody EXCEPT
        !.bigPkg = IF tr = 0 THEN <<>> ELSE Some(1),
        !.shippers = sh,
        !.sections = [NoSections EXCEPT
            !["expected_today"].froms = et,
            !["awaiting_from_sender"] = [items |-> c, froms |-> aw, tracks |-> tr]]]
        : c \in Counters,
          aw \in {Run(a, n) : a \in 1..2, n \in 0..MaxNames} \cup {<<NamePool[2], NamePool[2]>>},
          et \in {<<>>, Run(1, 1), Run(8, 1)},
          sh \in {<<>>, Run(7, 1)},
          tr \in {0, 2}}

\* digests with inline mailpiece images
ImageSides ==
    {[EmptyBody EXCEPT !.spans = s, !.cids = {"cid1", "cid2"}, !.blobs = bl]
        : s \in {<<>>, Run(1, 1)}, bl \in SUBSET {"cid1", "cid2"}}

DigestMsgs ==
    {Message(FROM_USPS, SUBJ_DIGEST_FRI, Some(1), b)
        : b \in MailSides \cup PackageSides \cup ImageSides}

DIGEST_FRI ==
    Message(FROM_USPS, SUBJ_DIGEST_FRI, Some(1),
            [EmptyBody EXCEPT !.bigMail = Some(2), !.spans = Run(1, 1),
                              !.sections = [NoSections EXCEPT
                                  !["expected_today"] =
                                      [items |-> Some(1), froms |-> Run(3, 1), tracks |-> 0]],
                              !.cids = {"cid1"}, !.blobs = {"cid1"}])

DIGEST_SAT ==
    Message(FROM_USPS, SUBJ_DIGEST_SAT, Some(2),
            [EmptyBody EXCEPT !.loose = Run(4, 2),
                              !.sections = [NoSections EXCEPT
                                  !["awaiting_from_sender"] =
                                      [items |-> Some(2), froms |-> <<>>, tracks |-> 0],
                                  !["outbound"] =
                                      [items |-> <<>>, froms |-> Run(5, 2), tracks |-> 0]]])

DELIVERED_FRI == Message(FROM_USPS, SUBJ_DELIVERED_FRI, Some(1), EmptyBody)

DELIVERED_SAT == Message(FROM_USPS, SUBJ_DELIVERED_SAT, Some(2), EmptyBody)

AMAZON_SHIPPED ==
    Message(FROM_TRACKING, SUBJ_SHIPPED, Some(1),
            [EmptyBody EXCEPT !.itemsText = <<"Widget">>, !.trackText = TRACK_URL_FULL,
                              !.etaText = "Arriving Today"])

AMAZON_ARRIVED ==
    Message(FROM_AMAZON, SUBJ_ARRIVED, Some(2),
            [EmptyBody EXCEPT !.headline = HEAD_DELIVERED])

USPS_NOTICE == Message(FROM_USPS, SUBJ_NOTICE, Some(1), EmptyBody)

OTHER_MAIL == Message(FROM_OTHER, SUBJ_DIGEST_FRI, <<>>, EmptyBody)

\* Amazon subjects matching none, one or two of the phrase groups
EventSubjects == {SUBJ_ORDERED, SUBJ_SHIPPED, SUBJ_OUT, SUBJ_ARRIVED, SUBJ_PLAIN,
                  SUBJ_CONFIRM_SHIPPED, SUBJ_SHIPPED_OUT, SUBJ_OUT_DELIVERED}

\* no headline, and the eight alternatives of _RE_HTML_HEADLINE
Headlines == {"", HEAD_DELIVERED, HEAD_OUT, HEAD_SHIPPED, HEAD_SHIPPED_SHORT,
              HEAD_CONFIRMED, HEAD_PLACED, HEAD_ORDERED, HEAD_RECEIVED}

EventMsgs ==
    {Message(FROM_AMAZON, s, Some(1), [EmptyBody EXCEPT !.headline = h])
        : s \in EventSubjects, h \in Headlines}

\* a digest forwarded by a sender that matches the Amazon rule and a USPS rule
USPS_VIA_AMAZON == Message(FROM_USPS_AMZ, SUBJ_DIGEST_FRI, Some(1), DIGEST_FRI.body)

\* a USPS message whose subject matches the Delivered and the Digest lists
USPS_BOTH == Message(FROM_USPS, SUBJ_BOTH, Some(2), DIGEST_SAT.body)

\* mail that matches more than one rule, with a digest and a delivered notice
RoutingMsgs == {USPS_VIA_AMAZON, USPS_BOTH, DIGEST_FRI, DELIVERED_FRI}

\* a mixed mailbox: two digests, two delivered notices, Amazon and other mail
MixedMsgs == {DIGEST_FRI, DIGEST_SAT, DELIVERED_FRI, DELIVERED_SAT,
              AMAZON_SHIPPED, AMAZON_ARRIVED, USPS_NOTICE, OTHER_MAIL}

(***************************************************************************)
(* imap_client.py: ImapClient and one pass of _fetch_sync.                 *)
(***************************************************************************)
NoFlags == <<>>

EmptyData == [usps |-> <<>>, amazon |-> <<>>]

EmptyHeap == [shared |-> <<>>, fresh |-> <<>>]

\* what the environment decides while a digest's images are saved: the
\* iteration order of the set of cids, the writes that fail, and whether the
\* directory of the store can be created (consulted only when an image part
\* matches a cid; the order and the writes are not consulted when it cannot)
Envs(msg) ==
    LET cids == msg.body.cids
        orders == {s \in [1..Cardinality(cids) -> cids] : Range(s) = cids}
    IN  {[order |-> o, failed |-> f, store |-> "ok"] : o \in orders, f \in SUBSET cids}
        \cup (IF msg.body.blobs \cap cids = {}
              THEN {}
              ELSE {[order |-> CHOOSE o \in orders : TRUE, failed |-> {}, store |-> "down"]})

\* the environment of a message that is not parsed
NoEnv == [order |-> <<>>, failed |-> {}, store |-> "ok"]

\* the order in which the loop takes the batch: "Newest first"
LoopOrderOldestFirst(batch) == batch

LoopOrder(batch) == Reverse(batch)

\* the flags a pass would start with if they were kept with the state
PassFlagsFromState == [got_usps_digest |-> "mail_expected" \in DOMAIN acc.usps,
                       got_usps_delivered |-> "last_delivered" \in DOMAIN acc.usps]

\* flags = {"got_usps_digest": False, "got_usps_delivered": False}
PassFlags == [got_usps_digest |-> FALSE, got_usps_delivered |-> FALSE]

\* the value of a state tree in every nested field: the buckets are read
\* through the reference the usps dict holds
Value(d, hp) ==
    [usps |-> IF "buckets" \in DOMAIN d.usps
              THEN Put(d.usps, "buckets", Some(hp[d.usps.buckets]))
              ELSE d.usps,
     amazon |-> d.amazon]

\* coordinator.py, _async_update_data: whatever client.fetch() returned is
\* exposed with out["_status"] = "live"
StatusAfterFetch == "live"

InitWith(sources) ==
    /\ source \in sources
    /\ mailbox = <<>>
    /\ acc = EmptyData
    /\ heap = EmptyHeap
    /\ pc = "idle"
    /\ pick = <<>>
    /\ todo = <<>>
    /\ data = EmptyData
    /\ flags = NoFlags
    /\ log = <<>>
    /\ outcome = "none"
    /\ status = "none"
    /\ before = EmptyData

\* a message is delivered to the folder (between two passes: a pass works on
\* the ids its search returned)
Arrive ==
    /\ pc = "idle"
    /\ Len(mailbox) < MaxMailbox
    /\ \E m \in source : mailbox' = Append(mailbox, m)
    /\ UNCHANGED <<source, acc, heap, pc, pick, todo, data, flags, log, outcome, status, before>>

\* _fetch_sync up to the loop: pick, the shallow copies and the reset flags
StartPass ==
    /\ pc = "idle"
    /\ mailbox # <<>>
    /\ pick' = LastN(mailbox, FetchLimit)
    /\ todo' = LoopOrder(pick')
    /\ data' = [usps |-> acc.usps, amazon |-> acc.amazon]
    /\ flags' = PassFlags
    /\ heap' = [heap EXCEPT !.fresh = <<>>]
    /\ log' = <<>>
    /\ pc' = "pass"
    /\ outcome' = "none"
    /\ before' = Value(acc, heap)
    /\ UNCHANGED <<source, mailbox, acc, status>>

\* one iteration of the loop: parse the headers and call process_message; an
\* error that leaves process_message is caught by the handler around the whole
\* session, which returns self._data as it was
ProcessMessage ==
    /\ pc = "pass"
    /\ todo # <<>>
    /\ \E env \in Envs(Head(todo)) :
        LET msg == Head(todo)
            r == process_message(msg, data, flags, heap, env)
        IN  /\ data' = r.data
            /\ flags' = r.flags
            /\ heap' = r.heap
            /\ log' = Append(log, [msg |-> msg, route |-> r.route, merged |-> r.merged,
                                   updated |-> r.updated, raised |-> r.raised, env |-> env])
            /\ pc' = IF r.raised THEN "idle" ELSE "pass"
            /\ outcome' = IF r.raised THEN "aborted" ELSE outcome
            /\ status' = IF r.raised THEN StatusAfterFetch ELSE status
            /\ before' = IF r.raised THEN EmptyData ELSE before
    /\ todo' = Tail(todo)
    /\ UNCHANGED <<source, mailbox, acc, pick>>

\* the end of the loop: self._data = data; self._flags = {}
Commit ==
    /\ pc = "pass"
    /\ todo = <<>>
    /\ LET created == Get(data.usps, "buckets", "shared") = "fresh"
           usps == IF created THEN Put(data.usps, "buckets", "shared") ELSE data.usps
       IN  /\ acc' = [usps |-> usps, amazon |-> data.amazon]
           /\ data' = [usps |-> usps, amazon |-> data.amazon]
           /\ heap' = IF created THEN [shared |-> heap.fresh, fresh |-> <<>>] ELSE heap
    /\ flags' = NoFlags
    /\ pc' = "idle"
    /\ outcome' = "committed"
    /\ status' = StatusAfterFetch
    /\ before' = EmptyData
    /\ UNCHANGED <<source, mailbox, pick, todo, log>>

Next == Arrive \/ StartPass \/ ProcessMessage \/ Commit

\* a mixed mailbox
Init == InitWith({MixedMsgs})

Spec == Init /\ [][Next]_vars

\* the source delivers Amazon mail only, of two kinds
InitAmazon == InitWith({{m1, m2} : m1 \in AmazonMsgs, m2 \in AmazonMsgs})

SpecAmazon == InitAmazon /\ [][Next]_vars

\* the source delivers one digest, any of DigestMsgs
InitDigest == InitWith({{m} : m \in DigestMsgs})

SpecDigest == InitDigest /\ [][Next]_vars

\* the source delivers one Amazon message, any of EventMsgs
InitEvents == InitWith({{m} : m \in EventMsgs})

SpecEvents == InitEvents /\ [][Next]_vars

(***************************************************************************)
(* imap_client.py: seed, and the ways a call of _fetch_sync ends without   *)
(* a commit.                                                               *)
(***************************************************************************)
\* a value that is not a mapping (None, a number, a string)
NotAMapping == [not_a_mapping |-> TRUE]

IsMapping(v) == "not_a_mapping" \notin DOMAIN v

\* snapshot.get(k): absent, None (or another falsy value), a value dict()
\* cannot copy, or a mapping
Section(tag, val) == [tag |-> tag, val |-> val]

SNAP_USPS == handle_usps_delivered(DELIVERED_FRI, <<>>)

SNAP_AMAZON == handle_amazon(AMAZON_SHIPPED, <<>>).amazon

\* what the storage may hand to seed: not a dict, an empty dict, and dicts
\* whose sections are absent, None, not copyable, or mappings
Snapshots ==
    {[isdict |-> FALSE, usps |-> Section("absent", <<>>), amazon |-> Section("absent", <<>>)],
     [isdict |-> TRUE, usps |-> Section("absent", <<>>), amazon |-> Section("absent", <<>>)],
     [isdict |-> TRUE, usps |-> Section("none", <<>>), amazon |-> Section("map", SNAP_AMAZON)],
     [isdict |-> TRUE, usps |-> Section("bad", <<>>), amazon |-> Section("map", SNAP_AMAZON)],
     [isdict |-> TRUE, usps |-> Section("map", SNAP_USPS), amazon |-> Section("absent", <<>>)],
     [isdict |-> TRUE, usps |-> Section("map", SNAP_USPS), amazon |-> Section("map", SNAP_AMAZON)],
     [isdict |-> TRUE, usps |-> Section("map", <<>>), amazon |-> Section("bad", <<>>)]}

\* dict(x) raises for a value that is neither a mapping nor falsy
seed_raises(sec) == sec.tag = "bad"

\* snapshot.get(k), stored as it is
seed_section_raw(sec) == IF sec.tag = "map" THEN sec.val ELSE NotAMapping

\* dict(snapshot.get(k) or {})
seed_section(sec) == IF sec.tag = "map" THEN sec.val ELSE <<>>

\* self._data after seed(snapshot): an error is ignored ("best-effort")
seed(snapshot, d) ==
    IF ~snapshot.isdict THEN d
    ELSE IF seed_raises(snapshot.usps) \/ seed_raises(snapshot.amazon) THEN d
    ELSE [usps |-> seed_section(snapshot.usps), amazon |-> seed_section(snapshot.amazon)]

\* ImapClient.seed, called between two passes; the buckets object of the
\* replaced state is no longer reached
Seed ==
    /\ pc = "idle"
    /\ \E s \in Snapshots :
        /\ acc' = seed(s, acc)
        /\ heap' = IF "buckets" \in DOMAIN acc'.usps THEN heap
                   ELSE [heap EXCEPT !.shared = <<>>]
    /\ UNCHANGED <<source, mailbox, pc, pick, todo, data, flags, log, outcome, status, before>>

\* _fetch_sync returns self._data before the loop: no credentials, select or
\* search not OK, no ids ("returned"), or login raises ("aborted")
ReturnEarly ==
    /\ pc = "idle"
    /\ \E o \in {"returned", "aborted"} : outcome' = o
    /\ status' = StatusAfterFetch
    /\ UNCHANGED <<source, mailbox, acc, heap, pc, pick, todo, data, flags, log, before>>

\* the fetch of a message is not OK, or its bytes are empty or do not parse:
\* continue
SkipMessage ==
    /\ pc = "pass"
    /\ todo # <<>>
    /\ todo' = Tail(todo)
    /\ log' = Append(log, [msg |-> Head(todo), route |-> "skipped", merged |-> FALSE,
                           updated |-> FALSE, raised |-> FALSE, env |-> NoEnv])
    /\ UNCHANGED <<source, mailbox, acc, heap, pc, pick, data, flags, outcome, status, before>>

\* M.fetch raises (the connection is lost): the handler around the session
\* returns self._data as it was
FetchFails ==
    /\ pc = "pass"
    /\ todo # <<>>
    /\ pc' = "idle"
    /\ outcome' = "aborted"
    /\ status' = StatusAfterFetch
    /\ before' = EmptyData
    /\ UNCHANGED <<source, mailbox, acc, heap, pick, todo, data, flags, log>>

\* coordinator.py, async_restore at start-up: the stored snapshot warms the
\* client through seed and is exposed with "_status" = "restoring"
async_restore ==
    /\ pc = "idle"
    /\ status = "none"
    /\ \E s \in Snapshots :
        /\ acc' = seed(s, acc)
        /\ heap' = IF "buckets" \in DOMAIN acc'.usps THEN heap
                   ELSE [heap EXCEPT !.shared = <<>>]
    /\ status' = "restoring"
    /\ UNCHANGED <<source, mailbox, pc, pick, todo, data, flags, log, outcome, before>>

NextClient == Next \/ Seed \/ ReturnEarly \/ SkipMessage \/ FetchFails \/ async_restore

\* a digest with an image and a delivered notice
ClientMsgs == {DIGEST_FRI, DELIVERED_SAT}

InitClient == InitWith({ClientMsgs})

SpecClient == InitClient /\ [][NextClient]_vars

\* two digests with different buckets
TwoDigests == {DIGEST_FRI, DIGEST_SAT}

InitAtomic == InitWith({TwoDigests})

SpecAtomic == InitAtomic /\ [][NextClient]_vars

\* Amazon mail of one content with every Date, parsable or not
WindowAmazon(subject) ==
    {Message(FROM_AMAZON, c.subject, d, c.body)
        : c \in {c \in AmazonContents : c.subject = subject}, d \in Dates}

\* the source delivers a digest, a delivered notice and Amazon mail of two
\* contents, each with any Date
InitWindow ==
    InitWith({{DIGEST_FRI, DELIVERED_SAT, m1, m2}
                 : m1 \in WindowAmazon(SUBJ_SHIPPED), m2 \in WindowAmazon(SUBJ_PLAIN)})

SpecWindow == InitWindow /\ [][Next]_vars

\* the loop of a pass as a function of the batch: the messages in loop order,
\* the environment each one meets, the working state, the flags and the heap
RECURSIVE RunLoop(_, _, _, _, _)
RunLoop(msgs, envs, d, fl, hp) ==
    IF msgs = <<>> THEN [data |-> d, heap |-> hp, raised |-> FALSE]
    ELSE LET r == process_message(Head(msgs), d, fl, hp, Head(envs))
         IN  IF r.raised THEN [data |-> d, heap |-> hp, raised |-> TRUE]
             ELSE RunLoop(Tail(msgs), Tail(envs), r.data, r.flags, r.heap)

\* one call of _fetch_sync over a batch from the state d: the shallow copies,
\* the reset flags, the loop; the result is what the call leaves in self._data
fetch_sync(batch, envs, d, hp) ==
    LET r == RunLoop(LoopOrder(batch), envs, [usps |-> d.usps, amazon |-> d.amazon],
                     PassFlags, [hp EXCEPT !.fresh = <<>>])
    IN  IF r.raised THEN [value |-> Value(d, r.heap), raised |-> TRUE]
        ELSE [value |-> Value(r.data, r.heap), raised |-> FALSE]

InitRouting == InitWith({RoutingMsgs})

SpecRouting == InitRouting /\ [][Next]_vars

(***************************************************************************)
(* Views of the state used by the properties.                              *)
(***************************************************************************)
\* a pass has completed and acc is what it produced
PassDone == pc = "idle" /\ outcome = "committed"

LastEntry == log[Len(log)]

\* a step of the loop of the pass
LoopStep == pc = "pass" /\ todo # <<>> /\ Len(log') = Len(log) + 1

Indexes(batch, route) == {i \in 1..Len(batch) : Route(batch[i]) = route}

Max(S) == CHOOSE x \in S : \A y \in S : y <= x

\* the most recent message of a route in a batch (mailbox order)
Newest(batch, route) == batch[Max(Indexes(batch, route))]

DigestKeys == {"mail_expected", "pkgs_expected", "mail_from", "pkgs_from",
               "mail_images", "images"}

\* the digest fields of a usps dict, the buckets read through the heap
DigestView(usps, hp) ==
    [fields |-> [k \in (DOMAIN usps) \cap DigestKeys |-> usps[k]],
     buckets |-> IF "buckets" \in DOMAIN usps THEN Some(hp[usps.buckets]) ELSE <<>>]

\* the digest fields as extracted from a message
ExtractedView(msg, env) ==
    LET p == parse_usps_digest(msg, env)
    IN  [fields |-> [mail_expected |-> p.mail_expected, pkgs_expected |-> p.pkgs_expected,
                     mail_from |-> p.mail_from, pkgs_from |-> p.pkgs_from,
                     mail_images |-> [count |-> p.mail_images.count,
                                      urls |-> p.mail_images.urls,
                                      files |-> p.mail_images.files],
                     images |-> p.mail_images.urls],
         buckets |-> Some(p.buckets)]

\* the delivered record as extracted from a message
ExtractedDelivered(msg) ==
    LET d == parse_usps_delivered(msg)
    IN  [subject |-> d.subject, delivered |-> TRUE, date_label |-> d.date_label,
         month |-> d.month, day |-> d.day, year |-> d.year,
         dashboard_url |-> DASHBOARD_URL]

\* the eight tracked fields of an amazon dict, an absent key read as empty
AmazonView(amazon) ==
    [k \in Range(AmazonFields) |-> Get(amazon, k, IF k = "items" THEN <<>> ELSE "")]

(***************************************************************************)
(* C1.  In one pass, at most one Digest message and at most one Delivered  *)
(* message are merged, however many the batch holds: every later message   *)
(* of a kind that was merged is ignored.                                   *)
(***************************************************************************)
C1_AtMostOneMergePerKind ==
    \A kind \in {"usps_digest", "usps_delivered"} :
        /\ Cardinality({i \in DOMAIN log : log[i].route = kind /\ log[i].merged}) <= 1
        /\ \A i, j \in DOMAIN log :
               (i < j /\ log[i].route = kind /\ log[j].route = kind) => ~log[j].merged

C1_Witness ==
    \E i, j \in DOMAIN log :
        /\ i < j
        /\ log[i].route = "usps_digest" /\ log[j].route = "usps_digest"
        /\ log[i].merged /\ ~log[j].merged
        /\ log[i].msg # log[j].msg

(***************************************************************************)
(* C2.  When the batch of a completed pass holds two or more Digest        *)
(* (Delivered) messages, the digest fields (last_delivered) of the state   *)
(* are those extracted from the newest of them in mailbox order.           *)
(***************************************************************************)
C2_NewestWins ==
    PassDone =>
        /\ Cardinality(Indexes(pick, "usps_digest")) >= 2 =>
               \E env \in Envs(Newest(pick, "usps_digest")) :
                   DigestView(acc.usps, heap)
                       = ExtractedView(Newest(pick, "usps_digest"), env)
        /\ Cardinality(Indexes(pick, "usps_delivered")) >= 2 =>
               /\ "last_delivered" \in DOMAIN acc.usps
               /\ acc.usps.last_delivered
                      = ExtractedDelivered(Newest(pick, "usps_delivered"))

C2_Witness ==
    /\ PassDone
    /\ \E i, j \in Indexes(pick, "usps_digest") :
           /\ i < j
           /\ \A env \in Envs(pick[i]) :
                  ExtractedView(pick[i], env) # DigestView(acc.usps, heap)
           /\ j = Max(Indexes(pick, "usps_digest"))

(***************************************************************************)
(* C3.  An Amazon message whose timestamp is strictly less than the stored *)
(* ts changes nothing: the working state (the eight fields and ts) is the  *)
(* same after the step and the merger reports updated = FALSE.             *)
(***************************************************************************)
C3_StaleIsNoOp ==
    [][(/\ LoopStep
        /\ Route(Head(todo)) = "amazon"
        /\ msg_timestamp(Head(todo)) < StoredTs(data.amazon))
       => (/\ data' = data
           /\ ~log'[Len(log')].updated
           /\ handle_amazon(Head(todo), data.amazon)
                  = [amazon |-> data.amazon, updated |-> FALSE])]_vars

\* a stale message that carries values the state does not hold was processed
C3_Witness ==
    /\ log # <<>>
    /\ LastEntry.route = "amazon"
    /\ ~LastEntry.updated
    /\ msg_timestamp(LastEntry.msg) < StoredTs(data.amazon)
    /\ FieldsUpdated(data.amazon, parse_amazon_email(LastEntry.msg))

(***************************************************************************)
(* C4.  From the empty state, amazon.ts never decreases: neither in the    *)
(* accumulated state across passes nor in the working state during a pass, *)
(* messages whose Date does not parse (timestamp 0) included.              *)
(***************************************************************************)
C4_TsMonotone ==
    [][/\ StoredTs(acc'.amazon) >= StoredTs(acc.amazon)
       /\ (pc = "pass" /\ pc' = "pass") => StoredTs(data'.amazon) >= StoredTs(data.amazon)
       /\ pc' = "pass" => StoredTs(data'.amazon) >= StoredTs(acc'.amazon)]_vars

\* with a positive ts stored, a message without a parsable date and one with
\* an older date were merged
C4_Witness ==
    /\ PassDone
    /\ StoredTs(acc.amazon) > 0
    /\ \E i, j \in DOMAIN log :
           /\ i < j
           /\ log[i].route = "amazon" /\ log[i].updated
           /\ IsNone(log[j].msg.date)
           /\ FieldsUpdated(<<>>, parse_amazon_email(log[j].msg))

(***************************************************************************)
(* C5.  The Amazon merge is idempotent: from any state, merging a message  *)
(* again into the result of its first merge gives the same state and       *)
(* reports updated = FALSE.                                                *)
(***************************************************************************)
C5_MergeIdempotent ==
    \A m \in source :
        \A prior \in {acc.amazon, data.amazon} :
            LET first == handle_amazon(m, prior)
                second == handle_amazon(m, first.amazon)
            IN  /\ second.amazon = first.amazon
                /\ ~second.updated

\* the same message was merged twice in a row, and the first merge updated
C5_Witness ==
    \E i \in DOMAIN log :
        /\ i + 1 \in DOMAIN log
        /\ log[i].msg = log[i + 1].msg
        /\ log[i].route = "amazon"
        /\ log[i].updated
        /\ ~log[i + 1].updated
        /\ msg_timestamp(log[i].msg) > 0

(***************************************************************************)
(* C6.  Freshness: for two messages with timestamps t1 < t2, merging t2    *)
(* and then t1 gives the same field values as merging t1 and then t2:      *)
(* stated of a pass that has processed t2 and then t1, from the state the  *)
(* pass started with.                                                      *)
(***************************************************************************)
OutOfOrder(prior, m1, m2) ==
    handle_amazon(m1, handle_amazon(m2, prior).amazon)

InOrder(prior, m1, m2) ==
    handle_amazon(m2, handle_amazon(m1, prior).amazon)

C6_OrderIndependent ==
    (/\ pc = "pass"
     /\ Len(log) = 2
     /\ log[1].route = "amazon" /\ log[2].route = "amazon"
     /\ msg_timestamp(log[2].msg) < msg_timestamp(log[1].msg))
    => AmazonView(data.amazon)
           = AmazonView(InOrder(acc.amazon, log[2].msg, log[1].msg).amazon)

(***************************************************************************)
(* C6, as amended.  For two messages with timestamps t1 < t2, merging t2   *)
(* and then t1 leaves the state merging t2 alone gives (t1 never overrides *)
(* t2's data), and it agrees with merging t1 and then t2 on every field    *)
(* that is non-empty in t2.                                                *)
(***************************************************************************)
C6_OlderNeverOverrides ==
    \A m1, m2 \in source :
        msg_timestamp(m1) < msg_timestamp(m2) =>
            LET alone == handle_amazon(m2, data.amazon)
                after == handle_amazon(m1, alone.amazon)
                inorder == InOrder(data.amazon, m1, m2).amazon
                a2 == parse_amazon_email(m2)
            IN  /\ after.amazon = alone.amazon
                /\ ~after.updated
                /\ \A k \in Range(AmazonFields) :
                       ~IsEmptyValue(k, a2[k]) =>
                           AmazonView(after.amazon)[k] = AmazonView(inorder)[k]

\* the newer message was merged and then the older one, which carries a
\* field the newer one lacks, was processed
C6_Witness ==
    \E i \in DOMAIN log :
        /\ i + 1 \in DOMAIN log
        /\ log[i].route = "amazon" /\ log[i + 1].route = "amazon"
        /\ msg_timestamp(log[i + 1].msg) < msg_timestamp(log[i].msg)
        /\ log[i].updated
        /\ ~log[i + 1].updated
        /\ \E k \in Range(AmazonFields) :
               /\ IsEmptyValue(k, parse_amazon_email(log[i].msg)[k])
               /\ ~IsEmptyValue(k, parse_amazon_email(log[i + 1].msg)[k])
               /\ IsEmptyValue(k, AmazonView(data.amazon)[k])

(***************************************************************************)
(* C7.  Padding law: after a Digest merge with mail_expected > 0, the      *)
(* length of mail_from equals mail_expected, whether the digest names      *)
(* fewer, as many or more senders than its counter declares.               *)
(***************************************************************************)
C7_PaddingLaw ==
    (/\ log # <<>>
     /\ LastEntry.route = "usps_digest"
     /\ LastEntry.merged
     /\ data.usps.mail_expected > 0)
    => Len(data.usps.mail_from) = data.usps.mail_expected

(***************************************************************************)
(* C8.  After a Digest extraction and merge every one of the four buckets  *)
(* has count >= 0 and at most 5 names, the awaiting_from_sender bucket     *)
(* after its enrichment from pkgs_from included.                           *)
(***************************************************************************)
C8_BucketsBounded ==
    (/\ log # <<>>
     /\ LastEntry.route = "usps_digest"
     /\ LastEntry.merged)
    => \A k \in Range(BucketKeys) :
           /\ heap[data.usps.buckets][k].count >= 0
           /\ Len(heap[data.usps.buckets][k].from) <= BucketCap

(***************************************************************************)
(* C9.  The delivered record and the digest fields are independent: the    *)
(* merge of a Delivered message leaves the digest fields (buckets and      *)
(* images included) as they were, and the merge of a Digest message leaves *)
(* last_delivered as it was.                                               *)
(***************************************************************************)
C9_IndependentSubtrees ==
    [][LoopStep =>
        /\ Route(Head(todo)) = "usps_delivered"
               => DigestView(data'.usps, heap') = DigestView(data.usps, heap)
        /\ Route(Head(todo)) = "usps_digest"
               => /\ ("last_delivered" \in DOMAIN data'.usps)
                        = ("last_delivered" \in DOMAIN data.usps)
                  /\ "last_delivered" \in DOMAIN data.usps
                        => data'.usps.last_delivered = data.usps.last_delivered]_vars

\* a Delivered message was merged into a state holding digest fields, after
\* a Digest message was merged into a state holding a delivered record
C9_Witness ==
    /\ Len(log) >= 2
    /\ LastEntry.route = "usps_delivered" /\ LastEntry.merged
    /\ log[Len(log) - 1].route = "usps_digest" /\ log[Len(log) - 1].merged
    /\ "last_delivered" \in DOMAIN acc.usps
    /\ data.usps.last_delivered # acc.usps.last_delivered
    /\ data.usps.mail_expected > 0
    /\ data.usps.mail_images.count > 0

(***************************************************************************)
(* C10.  The Digest merge is a full replace: after it, the digest fields   *)
(* (counters, sender lists, the four buckets, mail_images and images) are  *)
(* those extracted from the message, whatever the prior usps state held.   *)
(***************************************************************************)
C10_DigestReplaces ==
    (/\ log # <<>>
     /\ LastEntry.route = "usps_digest"
     /\ LastEntry.merged)
    => DigestView(data.usps, heap) = ExtractedView(LastEntry.msg, LastEntry.env)

\* a digest was merged over the fields of another digest
C10_Witness ==
    /\ log # <<>>
    /\ LastEntry.route = "usps_digest"
    /\ LastEntry.merged
    /\ "mail_from" \in DOMAIN acc.usps
    /\ acc.usps.mail_from # data.usps.mail_from
    /\ acc.usps.pkgs_from # data.usps.pkgs_from
    /\ acc.usps.mail_images # data.usps.mail_images

\* the steps of the loop that merged a message of a kind
MergedAt(kind) == {i \in DOMAIN log : log[i].route = kind /\ log[i].merged}

(***************************************************************************)
(* C11.  After a pass that merged both a Digest and a Delivered message,   *)
(* usps.subject and usps.type are those of the more recent of the two      *)
(* messages (the loop takes the newest first: the one merged first).       *)
(***************************************************************************)
C11_RootIsLatest ==
    (PassDone /\ MergedAt("usps_digest") # {} /\ MergedAt("usps_delivered") # {}) =>
        LET i == CHOOSE x \in MergedAt("usps_digest") : TRUE
            j == CHOOSE x \in MergedAt("usps_delivered") : TRUE
            latest == IF i < j THEN log[i] ELSE log[j]
        IN  /\ acc.usps.subject = latest.msg.subject
            /\ acc.usps.type = IF latest.route = "usps_digest" THEN "digest" ELSE "delivered"

(***************************************************************************)
(* C12.  The two gates are independent: in a pass, the first Digest and    *)
(* the first Delivered message the loop meets are both merged, whatever    *)
(* their relative order; a merge of one kind never blocks the other kind.  *)
(***************************************************************************)
C12_GatesIndependent ==
    \A i \in DOMAIN log :
        (/\ log[i].route \in {"usps_digest", "usps_delivered"}
         /\ ~log[i].raised
         /\ \A j \in 1..(i - 1) : log[j].route # log[i].route)
        => log[i].merged

\* a Delivered message was merged first and a Digest message after it
C12_Witness ==
    /\ PassDone
    /\ \E i, j \in DOMAIN log :
           /\ i < j
           /\ log[i].route = "usps_delivered" /\ log[i].merged
           /\ log[j].route = "usps_digest" /\ log[j].merged
    /\ "last_delivered" \in DOMAIN acc.usps
    /\ "mail_expected" \in DOMAIN acc.usps

(***************************************************************************)
(* C13.  After any sequence of seeds and passes, passes that return early  *)
(* or abort included, the accumulated state has exactly the two top-level  *)
(* keys usps and amazon, and each of them holds a mapping.                 *)
(***************************************************************************)
C13_BothSubtrees ==
    /\ DOMAIN acc = {"usps", "amazon"}
    /\ IsMapping(acc.usps)
    /\ IsMapping(acc.amazon)

\* the state was seeded from a snapshot without an amazon mapping, and the
\* pass after it was aborted by an error
C13_Witness ==
    /\ acc.usps = SNAP_USPS
    /\ acc.amazon = <<>>
    /\ outcome = "aborted"
    /\ log # <<>>
    /\ LastEntry.raised

\* neither an Amazon sender nor a USPS sender, or a USPS sender (not taken
\* for Amazon) whose subject is neither a Delivered nor a Digest subject
Unroutable(msg) ==
    /\ ~IsAmazonFrom(msg.frm)
    /\ \/ ~IsUspsFrom(msg.frm)
       \/ (~IsDeliveredSubject(msg.subject) /\ ~IsDigestSubject(msg.subject))

(***************************************************************************)
(* C14.  An unroutable message leaves the whole state (working and         *)
(* accumulated, the buckets included) and both flags unchanged, and the    *)
(* pass goes on: no error is raised.                                       *)
(***************************************************************************)
C14_UnroutableIsNoOp ==
    [][(LoopStep /\ Unroutable(Head(todo)))
       => (/\ data' = data
           /\ flags' = flags
           /\ heap' = heap
           /\ acc' = acc
           /\ pc' = "pass"
           /\ ~log'[Len(log')].merged
           /\ ~log'[Len(log')].raised)]_vars

\* a USPS notice was processed after a digest was merged in the same pass
C14_Witness ==
    /\ pc = "pass"
    /\ log # <<>>
    /\ LastEntry.msg = USPS_NOTICE
    /\ LastEntry.route = "none"
    /\ flags.got_usps_digest
    /\ "mail_expected" \in DOMAIN data.usps

(***************************************************************************)
(* C15.  A failure of the content store while the images of a Digest       *)
(* message are persisted does not abort the pass: the message is merged    *)
(* and its counters, senders and buckets are those extracted.              *)
(***************************************************************************)
C15_StoreFailureTolerated ==
    [][(/\ LoopStep
        /\ Route(Head(todo)) = "usps_digest"
        /\ ~flags.got_usps_digest)
       => (/\ pc' = "pass"
           /\ log'[Len(log')].merged
           /\ LET p == parse_usps_digest(Head(todo), log'[Len(log')].env)
              IN  /\ data'.usps.mail_expected = p.mail_expected
                  /\ data'.usps.pkgs_expected = p.pkgs_expected
                  /\ data'.usps.mail_from = p.mail_from
                  /\ data'.usps.pkgs_from = p.pkgs_from
                  /\ heap'[data'.usps.buckets] = p.buckets)]_vars

(***************************************************************************)
(* C16.  When the processing of one message of a batch raises an error,    *)
(* the other messages of the batch are still processed and their merges    *)
(* are in the state the pass produces.                                     *)
(***************************************************************************)
C16_FailureIsLocal ==
    (pc = "idle" /\ \E i \in DOMAIN log : log[i].raised)
    => (/\ Len(log) = Len(pick)
        /\ acc.usps = data.usps
        /\ acc.amazon = data.amazon)

\* count and names of a segment by the stated priority: the declared
\* counter, else the names found, else the tracking numbers
ExpectedBucket(seg) ==
    LET names == dedup_keep_order(NonEmpty(seg.froms))
    IN  CASE ~IsNone(seg.items) -> [count |-> seg.items[1], from |-> Take(names, 5)]
          [] IsNone(seg.items) /\ names # <<>> -> [count |-> Len(names), from |-> Take(names, 5)]
          [] OTHER -> [count |-> seg.tracks, from |-> <<>>]

(***************************************************************************)
(* C17.  Bucket count and names follow a fixed priority: with an explicit  *)
(* "N item(s)" counter, count = N and from = the first up to 5             *)
(* deduplicated FROM: names; else with names, count = the number of        *)
(* deduplicated names and from = the first up to 5; else count = the       *)
(* number of tracking numbers and from is empty.  Stated of the extractor  *)
(* and of the buckets a merge stores (the awaiting bucket's names are      *)
(* those before its enrichment).                                           *)
(***************************************************************************)
C17_BucketPriority ==
    /\ \A m \in source : \A k \in Range(BucketKeys) :
           bucket_count_and_names(m.body.sections[k]) = ExpectedBucket(m.body.sections[k])
    /\ (log # <<>> /\ LastEntry.route = "usps_digest" /\ LastEntry.merged) =>
           \A k \in Range(BucketKeys) :
               LET want == ExpectedBucket(LastEntry.msg.body.sections[k])
                   got == heap[data.usps.buckets][k]
               IN  /\ got.count = want.count
                   /\ k # "awaiting_from_sender" => got.from = want.from

\* the segment "2 item(s)", "FROM: Acme Corp", "FROM: Beta Inc", and with it
\* a segment whose names alone give the count
C17_Witness ==
    /\ log # <<>>
    /\ LastEntry.route = "usps_digest"
    /\ LastEntry.merged
    /\ LastEntry.msg.body.sections["awaiting_from_sender"]
           = [items |-> Some(2), froms |-> <<"Acme Corp", "Beta Inc">>, tracks |-> 2]
    /\ heap[data.usps.buckets]["awaiting_from_sender"]
           = [count |-> 2, from |-> <<"Acme Corp", "Beta Inc">>]
    /\ heap[data.usps.buckets]["expected_today"] = [count |-> 1, from |-> <<"Acme Corp">>]

ImagesConsistent(usps) ==
    /\ "mail_images" \in DOMAIN usps =>
           /\ usps.mail_images.count = Len(usps.mail_images.urls)
           /\ usps.mail_images.count = Len(usps.mail_images.files)
    /\ "images" \in DOMAIN usps =>
           /\ "mail_images" \in DOMAIN usps
           /\ usps.images = usps.mail_images.urls

(***************************************************************************)
(* C18.  In every state reached from the empty state by merges,            *)
(* usps.images (when present) equals usps.mail_images.urls, and            *)
(* mail_images.count is the length of mail_images.urls and of              *)
(* mail_images.files.                                                      *)
(***************************************************************************)
C18_ImagesAlias ==
    /\ ImagesConsistent(acc.usps)
    /\ ImagesConsistent(data.usps)

\* a digest with two images was merged, one of which could not be written
C18_Witness ==
    /\ log # <<>>
    /\ LastEntry.merged
    /\ Cardinality(LastEntry.msg.body.cids \cap LastEntry.msg.body.blobs) = 2
    /\ Cardinality(LastEntry.env.failed) = 1
    /\ data.usps.mail_images.count = 1
    /\ Len(data.usps.images) = 1

\* the phrase groups a subject matches
SubjectGroups(subject) ==
    LET s == SubjectPhrases(subject)
    IN  {g \in {"ordered", "shipped", "out_for_delivery", "delivered"} :
            CASE g = "ordered" ->
                    s \cap {"^ordered:", " order confirmed", "order confirmation",
                            "we've received your order", "your order has been placed",
                            "order placed"} # {}
              [] g = "shipped" -> s \cap {"^shipped:", " has shipped",
                                          "your order has shipped"} # {}
              [] g = "out_for_delivery" -> "out for delivery" \in s
              [] g = "delivered" -> s \cap {"^delivered:", " delivered"} # {}}

EventOrder == <<"ordered", "shipped", "out_for_delivery", "delivered">>

\* the first group of EventOrder in G (G not empty)
FirstGroup(G) ==
    EventOrder[CHOOSE i \in 1..Len(EventOrder) :
                  /\ EventOrder[i] \in G
                  /\ \A j \in 1..(i - 1) : EventOrder[j] \notin G]

(***************************************************************************)
(* C19.  The Amazon event is the first of the groups ordered, shipped,     *)
(* out_for_delivery, delivered whose phrases the subject matches, whatever *)
(* the headline; the headline decides only when no group matches.  The     *)
(* subject "Shipped: Your order has shipped" gives "shipped".  Stated of   *)
(* the extractor and of the event a merge stores.                          *)
(***************************************************************************)
C19_SubjectFirst ==
    /\ \A m \in source :
           LET G == SubjectGroups(m.subject)
               e == parse_amazon_email(m).event
           IN  /\ G # {} => e = FirstGroup(G)
               /\ G = {} => e = event_from_subject_or_html(SUBJ_EMPTY, m.body.headline)
               /\ m.subject = SUBJ_SHIPPED => e = "shipped"
    /\ (log # <<>> /\ LastEntry.route = "amazon" /\ SubjectGroups(LastEntry.msg.subject) # {})
           => data.amazon.event = FirstGroup(SubjectGroups(LastEntry.msg.subject))

\* "Shipped: Your order has shipped" was merged with the headline of a
\* delivered package
C19_Witness ==
    /\ log # <<>>
    /\ LastEntry.msg.subject = SUBJ_SHIPPED
    /\ LastEntry.msg.body.headline = HEAD_DELIVERED
    /\ LastEntry.updated
    /\ data.amazon.event = "shipped"

(***************************************************************************)
(* C20.  Both flags are false when a pass starts, whatever the earlier     *)
(* passes did: the first Digest (Delivered) message a pass processes is    *)
(* merged even when an earlier pass merged one.                            *)
(***************************************************************************)
C20_FlagsResetEachPass ==
    [][/\ (pc = "idle" /\ pc' = "pass")
            => (~flags'.got_usps_digest /\ ~flags'.got_usps_delivered)
       /\ (/\ LoopStep
           /\ log'[Len(log')].route \in {"usps_digest", "usps_delivered"}
           /\ ~log'[Len(log')].raised
           /\ \A i \in DOMAIN log : log[i].route # log'[Len(log')].route)
            => log'[Len(log')].merged]_vars

\* a pass merged a Digest and a Delivered message over those an earlier pass
\* had committed
C20_Witness ==
    /\ pc = "pass"
    /\ "mail_expected" \in DOMAIN acc.usps
    /\ "last_delivered" \in DOMAIN acc.usps
    /\ acc.usps.last_delivered = ExtractedDelivered(DELIVERED_SAT)
    /\ MergedAt("usps_digest") # {}
    /\ MergedAt("usps_delivered") # {}

(***************************************************************************)
(* C21.  A message routed to Amazon is handed to handle_amazon whatever    *)
(* the two USPS flags are, and the step leaves the usps subtree, the       *)
(* buckets and both flags unchanged; a message routed to USPS leaves the   *)
(* amazon subtree unchanged.                                               *)
(***************************************************************************)
C21_CarrierFrames ==
    [][LoopStep =>
        LET e == log'[Len(log')]
            r == handle_amazon(Head(todo), data.amazon)
        IN  /\ e.route = "amazon" =>
                /\ e.merged
                /\ e.updated = r.updated
                /\ data'.amazon = (IF r.updated THEN r.amazon ELSE data.amazon)
                /\ data'.usps = data.usps
                /\ heap' = heap
                /\ flags' = flags
            /\ e.route \in {"usps_digest", "usps_delivered"} =>
                data'.amazon = data.amazon]_vars

\* an Amazon message changed the state after both USPS gates had been set
C21_Witness ==
    /\ pc = "pass"
    /\ log # <<>>
    /\ LastEntry.route = "amazon"
    /\ LastEntry.merged
    /\ LastEntry.updated
    /\ flags.got_usps_digest
    /\ flags.got_usps_delivered
    /\ "ts" \in DOMAIN data.amazon
    /\ "mail_expected" \in DOMAIN data.usps

(***************************************************************************)
(* C22.  A merge of an Amazon message with a non-zero timestamp t that is  *)
(* not rejected leaves ts = t, whether or not a tracked field changed, and *)
(* reports an update whenever ts changed.  Hence, during a pass, ts is the *)
(* largest of the ts the pass started with (0 from the empty state) and    *)
(* the timestamps of the messages merged so far; a Date that does not      *)
(* parse counts as 0.                                                      *)
(***************************************************************************)
\* the amazon subtree after the first n messages of the log, recomputed
RECURSIVE AmazonAfter(_)
AmazonAfter(n) ==
    IF n = 0 THEN acc.amazon
    ELSE LET prev == AmazonAfter(n - 1)
             r == handle_amazon(log[n].msg, prev)
         IN  IF log[n].route = "amazon" /\ r.updated THEN r.amazon ELSE prev

\* the Amazon messages of the log the merger did not reject as stale
Accepted ==
    {i \in DOMAIN log :
        /\ log[i].route = "amazon"
        /\ ~(msg_timestamp(log[i].msg) < StoredTs(AmazonAfter(i - 1)))}

C22_TsIsFreshest ==
    /\ [][(LoopStep /\ log'[Len(log')].route = "amazon") =>
            LET t == msg_timestamp(Head(todo))
                old == StoredTs(data.amazon)
            IN  /\ (~(t < old) /\ t # 0) => StoredTs(data'.amazon) = t
                /\ StoredTs(data'.amazon) # old => log'[Len(log')].updated
                /\ t < old => StoredTs(data'.amazon) = old]_vars
    /\ [](pc = "pass" =>
            StoredTs(data.amazon) =
                Max({StoredTs(acc.amazon)} \cup {msg_timestamp(log[i].msg) : i \in Accepted}))

\* from the empty state, a second message with the same content and a later
\* Date was merged: no tracked field changed, ts was stamped and an update
\* reported
C22_Witness ==
    /\ pc = "pass"
    /\ acc.amazon = <<>>
    /\ Len(log) = 2
    /\ Accepted = {1, 2}
    /\ msg_timestamp(log[1].msg) = 1
    /\ msg_timestamp(log[2].msg) = 2
    /\ ~FieldsUpdated(AmazonAfter(1), parse_amazon_email(log[2].msg))
    /\ log[2].updated
    /\ StoredTs(data.amazon) = 2

(***************************************************************************)
(* C23.  An empty extracted value (None, "" or []) never overwrites a      *)
(* stored Amazon field: a tracked field that is non-empty stays non-empty  *)
(* through every merge, in the working state of a pass and in the          *)
(* accumulated state.                                                      *)
(***************************************************************************)
\* the tracked fields of an amazon dict that hold a non-empty value
Filled(amazon) ==
    {k \in Range(AmazonFields) : ~IsEmptyValue(k, AmazonView(amazon)[k])}

C23_EmptyNeverOverwrites ==
    [][/\ LoopStep => Filled(data.amazon) \subseteq Filled(data'.amazon)
       /\ Filled(acc.amazon) \subseteq Filled(acc'.amazon)
       /\ (LoopStep /\ log'[Len(log')].route = "amazon") =>
            \A k \in Filled(data.amazon) :
                IsEmptyValue(k, parse_amazon_email(Head(todo))[k])
                    => data'.amazon[k] = data.amazon[k]]_vars

\* a message that is not stale and extracts no items and no tracker URL was
\* merged over a state that holds both
C23_Witness ==
    /\ pc = "pass"
    /\ Len(log) = 2
    /\ Accepted = {1, 2}
    /\ log[2].updated
    /\ parse_amazon_email(log[2].msg).items = <<>>
    /\ parse_amazon_email(log[2].msg).track_url = ""
    /\ {"items", "track_url"} \subseteq Filled(AmazonAfter(1))
    /\ {"items", "track_url"} \subseteq Filled(data.amazon)

(***************************************************************************)
(* C24.  When the subject matches none of the four phrase groups and the   *)
(* HTML holds one of the eight headlines of _RE_HTML_HEADLINE, the event   *)
(* is the value of ordered | shipped | out_for_delivery | delivered that   *)
(* corresponds to the headline, never "".  Stated of the extractor and of  *)
(* the event a merge stores.                                               *)
(***************************************************************************)
\* the event a headline stands for
HeadlineEvent(h) ==
    CASE h \in {HEAD_CONFIRMED, HEAD_PLACED, HEAD_ORDERED, HEAD_RECEIVED} -> "ordered"
      [] h \in {HEAD_SHIPPED, HEAD_SHIPPED_SHORT} -> "shipped"
      [] h = HEAD_OUT -> "out_for_delivery"
      [] h = HEAD_DELIVERED -> "delivered"

C24_HeadlineGivesEvent ==
    (/\ log # <<>>
     /\ LastEntry.route = "amazon"
     /\ SubjectGroups(LastEntry.msg.subject) = {}
     /\ LastEntry.msg.body.headline # "")
        => /\ parse_amazon_email(LastEntry.msg).event
                  = HeadlineEvent(LastEntry.msg.body.headline)
           /\ "event" \in DOMAIN data.amazon
           /\ data.amazon.event = HeadlineEvent(LastEntry.msg.body.headline)

(***************************************************************************)
(* C25.  The status exposed to the host is "restoring" from the restore    *)
(* until a fetch completes, and becomes "live" only by a fetch that        *)
(* retrieved the mailbox and committed its pass: a fetch that failed       *)
(* (login, folder selection or search error, connection lost) leaves the   *)
(* status as it was.                                                       *)
(***************************************************************************)
C25_LiveOnlyAfterFreshFetch ==
    [][/\ (status = "restoring" /\ pc' = "pass") => status' = "restoring"
       /\ (status # "live" /\ status' = "live") => outcome' = "committed"
       /\ (outcome' = "aborted" /\ pc' = "idle") => status' = status]_vars

(***************************************************************************)
(* C26.  A pass commits atomically: when a pass aborts part-way through    *)
(* the batch (the message source raises after some messages were merged),  *)
(* the state the client keeps and returns equals, in every nested field,   *)
(* the buckets included, the state before the pass.                        *)
(***************************************************************************)
C26_AbortKeepsState ==
    [][(pc = "pass" /\ pc' = "idle" /\ outcome' = "aborted")
        => Value(acc', heap') = before]_vars

(***************************************************************************)
(* C27.  The state a completed pass has handed to the consumer is not      *)
(* modified by a later pass: while the next pass runs, every field of      *)
(* self._data, each bucket's count and from included, keeps the value it   *)
(* had when that pass began.                                               *)
(***************************************************************************)
C27_HandedStateIsStable ==
    pc = "pass" => Value(acc, heap) = before

(***************************************************************************)
(* C28.  Polling is idempotent over an unchanged window: a second pass     *)
(* over the batch of a completed pass, started from the state that pass    *)
(* produced and meeting the same environment, completes and yields the     *)
(* same accumulated state (the Amazon fields and ts, the digest fields and *)
(* buckets, subject, type and last_delivered), whatever the Date headers   *)
(* of the batch: out of mailbox order, equal, or not parsable.             *)
(***************************************************************************)
\* the second pass over the batch of the pass that has just completed
Repoll == fetch_sync(pick, [i \in DOMAIN log |-> log[i].env], acc, heap)

Ascending(batch) ==
    LET A == Indexes(batch, "amazon")
    IN  /\ \A i \in A : msg_timestamp(batch[i]) > 0
        /\ \A i, j \in A : i < j => msg_timestamp(batch[i]) < msg_timestamp(batch[j])

C29_OnlyNewestAmazonCounts ==
    /\ [][(/\ LoopStep
           /\ Ascending(pick)
           /\ log'[Len(log')].route = "amazon"
           /\ \E i \in DOMAIN log : log[i].route = "amazon")
            => /\ msg_timestamp(Head(todo)) < StoredTs(data.amazon)
               /\ ~log'[Len(log')].updated
               /\ data' = data]_vars
    /\ [](( /\ pc = "pass"
            /\ Ascending(pick)
            /\ \E i \in DOMAIN log : log[i].route = "amazon")
            => \A k \in Range(AmazonFields) :
                IsEmptyValue(k, parse_amazon_email(Newest(pick, "amazon"))[k])
                    => AmazonView(data.amazon)[k] = AmazonView(acc.amazon)[k])

\* from the empty state, the newest message carried no items and the older
\* one, which carries some, was rejected
C29_Witness ==
    /\ pc = "pass"
    /\ acc.amazon = <<>>
    /\ Ascending(pick)
    /\ Len(pick) = 2
    /\ Len(log) = 2
    /\ parse_amazon_email(pick[2]).items = <<>>
    /\ parse_amazon_email(pick[1]).items # <<>>
    /\ log[1].updated
    /\ ~log[2].updated
    /\ "items" \notin DOMAIN data.amazon
    /\ StoredTs(data.amazon) = msg_timestamp(pick[2])

(***************************************************************************)
(* C30.  Routing follows a fixed precedence and a message takes exactly    *)
(* one route.  A sender that matches the Amazon rule goes to Amazon even   *)
(* when it also matches a USPS rule.  A USPS message whose subject matches *)
(* the Delivered and the Digest lists is a Delivered message only: it is   *)
(* merged as Delivered when that gate is open, and when the gate is set it *)
(* is dropped, neither tried as a Digest nor setting the Digest flag.      *)
(***************************************************************************)
C30_RoutingPrecedence ==
    [][LoopStep =>
        LET msg == Head(todo)
            e == log'[Len(log')]
            both == /\ ~IsAmazonFrom(msg.frm)
                    /\ IsUspsFrom(msg.frm)
                    /\ IsDeliveredSubject(msg.subject)
                    /\ IsDigestSubject(msg.subject)
            gate == Get(flags, "got_usps_delivered", FALSE)
        IN  /\ IsAmazonFrom(msg.frm) =>
                /\ e.route = "amazon"
                /\ data'.usps = data.usps
                /\ heap' = heap
                /\ flags' = flags
            /\ both =>
                /\ e.route = "usps_delivered"
                /\ data'.amazon = data.amazon
                /\ flags'.got_usps_digest = flags.got_usps_digest
                /\ DigestView(data'.usps, heap') = DigestView(data.usps, heap)
            /\ (both /\ gate) =>
                /\ ~e.merged
                /\ data' = data
                /\ heap' = heap
                /\ flags' = flags
            /\ (both /\ ~gate) =>
                /\ e.merged
                /\ flags'.got_usps_delivered
                /\ data'.usps = handle_usps_delivered(msg, data.usps)]_vars

\* after a Delivered message set its gate, a message matching both subject
\* lists was dropped with the Digest gate still open, and a message whose
\* sender matches the Amazon rule and a USPS rule was merged by handle_amazon
C30_Witness ==
    /\ pc = "pass"
    /\ Len(log) = 3
    /\ log[1].route = "usps_delivered" /\ log[1].merged
    /\ log[2].msg = USPS_BOTH
    /\ log[2].route = "usps_delivered" /\ ~log[2].merged
    /\ log[3].msg = USPS_VIA_AMAZON
    /\ IsUspsFrom(log[3].msg.frm) /\ IsDigestSubject(log[3].msg.subject)
    /\ log[3].route = "amazon" /\ log[3].merged /\ log[3].updated
    /\ ~flags.got_usps_digest
    /\ flags.got_usps_delivered
    /\ "mail_expected" \notin DOMAIN data.usps
    /\ "ts" \in DOMAIN data.amazon
====
